---- MODULE Spec2Model ----
(***************************************************************************)
(* Model of the mind-map backend (src/index.js): the sentence chunker, the *)
(* topic merger, the graph layout and the POST /api/process handler.       *)
(*                                                                         *)
(* Strings that the code measures or cuts (the chunker's text and chunks)  *)
(* are sequences of one-character strings.  A JavaScript property that is  *)
(* absent reads as Undefined (ids, titles) or UndefinedLevel (levels).     *)
(*                                                                         *)
(* Three specifications share the module:                                  *)
(*   SpecChunk  splitTextIntoChunks applied to a text and a chunk size     *)
(*   SpecMerge  mergeTopics, then hierarchyToMindMap, on parsed trees      *)
(*   Spec       one POST /api/process request, one action per stretch of   *)
(*              the handler between two awaits                             *)
(***************************************************************************)
EXTENDS Integers, Sequences, FiniteSets, TLC

VARIABLES
    \* splitTextIntoChunks
    text,        \* the input string
    chunkSize,   \* the chunkSize argument
    chunks,      \* the returned array
    cpc,         \* "input" | "done"
    \* mergeTopics / hierarchyToMindMap
    mtopics,     \* the array of parsed trees handed to mergeTopics
    merged,      \* mergeTopics' result
    graph,       \* hierarchyToMindMap's result
    mpc,         \* "input" | "merged" | "laid"
    \* POST /api/process
    req,         \* req.body: content and type
    keySet,      \* whether process.env.GEMINI_API_KEY is set
    pc,          \* "start" | "extracting" | "summary" | "chunk" | "done"
    summary,     \* generateSummary's result
    nChunks,     \* chunks.length inside extractTopics
    idx,         \* 1-based position of the chunk whose LLM call is pending
    outputs,     \* what the LLM returned for each chunk so far, in order
    topics,      \* extractTopics' topics array
    responses,   \* the responses written to res, in order
    extCalls,    \* page extractions started
    llmCalls,    \* model.generateContent calls started
    failure      \* the error thrown by an external call, or NoError

chunkVars == <<text, chunkSize, chunks, cpc>>
mergeVars == <<mtopics, merged, graph, mpc>>
reqVars == <<req, keySet, pc, summary, nChunks, idx, outputs, topics,
             responses, extCalls, llmCalls, failure>>
vars == <<chunkVars, mergeVars, reqVars>>

----------------------------------------------------------------------------
(* Bounds of the model *)

MaxLen == 6
MaxChunkSize == 6
MaxKids == 2
MaxTrees == 2
MaxChunks == 2

SeqUpTo(S, n) == UNION {[1..k -> S] : k \in 0..n}

----------------------------------------------------------------------------
(* Strings as sequences of characters *)

Chars == {"a", " ", "."}

\* [.!?]
IsTerminator(c) == c \in {".", "!", "?"}

\* White space as String.prototype.trim sees it
IsSpace(c) == c \in {" ", "\t", "\n", "\r"}

RECURSIVE TrimStart(_)
TrimStart(s) ==
    IF s # <<>> /\ IsSpace(Head(s)) THEN TrimStart(Tail(s)) ELSE s

RECURSIVE TrimEnd(_)
TrimEnd(s) ==
    IF s # <<>> /\ IsSpace(s[Len(s)])
    THEN TrimEnd(SubSeq(s, 1, Len(s) - 1))
    ELSE s

\* String.prototype.trim
Trim(s) == TrimEnd(TrimStart(s))

\* First position >= i of s holding a terminator (or not), Len(s) + 1 if none
RECURSIVE RunEnd(_, _, _)
RunEnd(s, i, term) ==
    IF i > Len(s) \/ IsTerminator(s[i]) # term THEN i ELSE RunEnd(s, i + 1, term)

\* text.match(/[^.!?]+[.!?]+/g) || [] from position i on: each match is a
\* maximal run of non-terminators followed by a maximal run of terminators.
\* Terminators with nothing before them are skipped, and a last run of
\* non-terminators with no terminator after it matches nothing.
RECURSIVE MatchSentences(_, _)
MatchSentences(s, i) ==
    IF i > Len(s) THEN <<>>
    ELSE IF IsTerminator(s[i]) THEN MatchSentences(s, i + 1)
    ELSE LET j == RunEnd(s, i, FALSE)
             k == RunEnd(s, j, TRUE)
         IN  IF j > Len(s) THEN <<>>
             ELSE <<SubSeq(s, i, k - 1)>> \o MatchSentences(s, k)

\* The for loop of splitTextIntoChunks over sentences[i..], with the chunks
\* pushed so far and currentChunk; then the flush after the loop.
RECURSIVE ChunkLoop(_, _, _, _, _)
ChunkLoop(sentences, i, size, done, currentChunk) ==
    IF i > Len(sentences)
    THEN IF currentChunk # <<>> THEN Append(done, Trim(currentChunk)) ELSE done
    ELSE LET sentence == sentences[i] IN
         IF Len(currentChunk) + Len(sentence) > size
         THEN ChunkLoop(sentences, i + 1, size,
                        Append(done, Trim(currentChunk)), sentence)
         ELSE ChunkLoop(sentences, i + 1, size,
                        done, currentChunk \o <<" ">> \o sentence)

splitTextIntoChunks(s, size) ==
    ChunkLoop(MatchSentences(s, 1), 1, size, <<>>, <<>>)

----------------------------------------------------------------------------
(* SpecChunk: splitTextIntoChunks on every text and chunk size in bounds *)

ChunkIdle ==
    /\ text = <<>>
    /\ chunkSize = 0
    /\ chunks = <<>>
    /\ cpc = "idle"

Split ==
    /\ cpc = "input"
    /\ chunks' = splitTextIntoChunks(text, chunkSize)
    /\ cpc' = "done"
    /\ UNCHANGED <<text, chunkSize>>
    /\ UNCHANGED <<mergeVars, reqVars>>

----------------------------------------------------------------------------
(* Topic trees *)

\* What reading an absent property yields: undefined, and for a level
Undefined == "undefined"
UndefinedLevel == -1

\* node.id, node.level: the property if the object has it
IdOf(node) == IF "id" \in DOMAIN node THEN node.id ELSE Undefined
LevelOf(node) == IF "level" \in DOMAIN node THEN node.level ELSE UndefinedLevel

\* String.prototype.toLowerCase on the titles of the model
toLowerCase(s) ==
    CASE s = "A" -> "a"
      [] s = "B" -> "b"
      [] OTHER -> s

\* A node as JSON.parse returns it for the format the prompt asks for:
\* title, content and children, no id and no level
TopicJson(title, content, children) ==
    [title |-> title, content |-> content, children |-> children]

Leaf == TopicJson("x", "leaf", <<>>)
Inner == TopicJson("y", "inner", <<Leaf>>)

\* The subtopics an LLM answer may hold: without children, with one
\* sub-subtopic, and with sub-subtopics one of which has a child of its own
Subtopics ==
    { TopicJson("A", "first", <<>>),
      TopicJson("a", "second", <<Leaf>>),
      TopicJson("B", "third", <<Inner, Leaf>>) }

\* The trees JSON.parse may return for one chunk: a main topic with up to
\* MaxKids subtopics, or one with nothing to say
ParsedTrees ==
    { TopicJson("T", "c", ch) : ch \in SeqUpTo(Subtopics, MaxKids) }
        \cup { TopicJson("T", "", <<>>) }

----------------------------------------------------------------------------
(* mergeTopics *)

\* Mutant of ExistingChild: the titles compared as they are
ExistingChild_CaseSensitive(m, child) ==
    \E i \in 1..Len(m.children) : m.children[i].title = child.title

\* merged.children.find(c => c.title.toLowerCase() === child.title.toLowerCase())
ExistingChild(m, child) ==
    \E i \in 1..Len(m.children) :
        toLowerCase(m.children[i].title) = toLowerCase(child.title)

\* `topic-${merged.children.length + 1}`
TopicId(m) == "topic-" \o ToString(Len(m.children) + 1)

\* The body of topic.children?.forEach for one child
MergeChild(m, child) ==
    IF ExistingChild(m, child) THEN m
    ELSE [m EXCEPT !.children =
             Append(@, [id |-> TopicId(m), level |-> 1,
                        children |-> child.children] @@ child)]

RECURSIVE MergeChildren(_, _, _)
MergeChildren(m, children, i) ==
    IF i > Len(children) THEN m
    ELSE MergeChildren(MergeChild(m, children[i]), children, i + 1)

\* The body of topics.forEach for one topic
MergeTopic(m, topic) ==
    MergeChildren(IF m.content = "" THEN [m EXCEPT !.content = topic.content]
                  ELSE m,
                  topic.children, 1)

RECURSIVE MergeLoop(_, _, _)
MergeLoop(m, ts, i) ==
    IF i > Len(ts) THEN m ELSE MergeLoop(MergeTopic(m, ts[i]), ts, i + 1)

mergeTopics(ts) ==
    MergeLoop([id |-> "root", title |-> "Main Topic", content |-> "",
               level |-> 0, children |-> <<>>], ts, 1)

----------------------------------------------------------------------------
(* hierarchyToMindMap *)

childSpacing == 200

\* if (parentId): undefined and the empty string are falsy
Truthy(id) == id # Undefined /\ id # ""

NodeData(node, x, y) ==
    [id |-> IdOf(node), type |-> "custom", position |-> [x |-> x, y |-> y],
     data |-> [label |-> node.title, level |-> LevelOf(node),
               content |-> node.content, isExpanded |-> TRUE]]

\* `${parentId}-${node.id}`, source, target and the style by level
EdgeData(node, parentId) ==
    [id |-> parentId \o "-" \o IdOf(node), source |-> parentId,
     target |-> IdOf(node), type |-> "smoothstep", animated |-> TRUE,
     style |-> [stroke |-> IF LevelOf(node) = 1 THEN "#10b981" ELSE "#f97316",
                strokeWidth |-> IF LevelOf(node) = 1 THEN 3 ELSE 2]]

\* The edges pushed for one node
EdgesFor(node, parentId) ==
    IF Truthy(parentId) THEN <<EdgeData(node, parentId)>> ELSE <<>>

\* processNode: what it pushes to nodes and to edges, in order, for node and
\* then for its children from the i-th on (ProcessChildren)
RECURSIVE processNode(_, _, _, _)
RECURSIVE ProcessChildren(_, _, _, _)
processNode(node, parentId, x, y) ==
    LET startX == x - ((Len(node.children) - 1) * childSpacing) \div 2
        below == ProcessChildren(node, 1, startX, y)
    IN  [nodes |-> <<NodeData(node, x, y)>> \o below.nodes,
         edges |-> EdgesFor(node, parentId) \o below.edges]

ProcessChildren(node, i, startX, y) ==
    IF i > Len(node.children) THEN [nodes |-> <<>>, edges |-> <<>>]
    ELSE LET first == processNode(node.children[i], IdOf(node),
                                  startX + (i - 1) * childSpacing, y + 150)
             rest == ProcessChildren(node, i + 1, startX, y)
         IN  [nodes |-> first.nodes \o rest.nodes,
              edges |-> first.edges \o rest.edges]

hierarchyToMindMap(hierarchy) == processNode(hierarchy, Undefined, 0, 0)

----------------------------------------------------------------------------
(* SpecMerge: mergeTopics, then hierarchyToMindMap, on parsed trees *)

NoTree == [id |-> "none", title |-> "", content |-> "", level |-> 0,
           children |-> <<>>]
NoGraph == [nodes |-> <<>>, edges |-> <<>>]

MergeIdle ==
    /\ mtopics = <<>>
    /\ merged = NoTree
    /\ graph = NoGraph
    /\ mpc = "idle"

Merge ==
    /\ mpc = "input"
    /\ merged' = mergeTopics(mtopics)
    /\ mpc' = "merged"
    /\ UNCHANGED <<mtopics, graph>>
    /\ UNCHANGED <<chunkVars, reqVars>>

Layout ==
    /\ mpc = "merged"
    /\ graph' = hierarchyToMindMap(merged)
    /\ mpc' = "laid"
    /\ UNCHANGED <<mtopics, merged>>
    /\ UNCHANGED <<chunkVars, reqVars>>

----------------------------------------------------------------------------
(* POST /api/process *)

NoError == [name |-> "", message |-> ""]

\* What an external call may throw
Errors ==
    { [name |-> "Error", message |-> "provider failed"],
      [name |-> "TimeoutError", message |-> "navigation timeout"] }

\* req.body.content: missing, empty, or a text or URL
Contents == {Undefined, "", "some content"}

\* !content
Falsy(v) == v = Undefined \/ v = ""

\* The raw text of an LLM answer, as far as the handler can tell one from
\* another: whether JSON.parse accepts what extractJsonFromMarkdown cut out
\* of it, and the value it parses to
NotJson == [parses |-> FALSE, value |-> TopicJson("", "", <<>>)]
LLMOutputs == {NotJson} \cup {[parses |-> TRUE, value |-> t] : t \in ParsedTrees}

BadRequest == [status |-> 400, body |-> [error |-> "Content is required"]]

ConfigError ==
    [status |-> 500,
     body |-> [error |-> "Server configuration error",
               details |-> "API key is not configured"]]

\* The catch block's response
ServerError(e) ==
    [status |-> 500,
     body |-> [error |-> "Failed to process content",
               details |-> e.message, type |-> e.name]]

\* res.json(mindMap)
Ok(mindMap) == [status |-> 200, body |-> mindMap]

\* Mutant of Validate: the API key is not checked
Validate_KeyUnchecked(body, key) ==
    IF Falsy(body.content) THEN "bad request" ELSE "ok"

\* The two checks at the top of the handler, in their order
Validate(body, key) ==
    IF Falsy(body.content) THEN "bad request"
    ELSE IF ~key THEN "config error"
    ELSE "ok"

\* Mutant of ParseAndCollect: a parse failure empties the topics array
ParseAndCollect_ResetOnFailure(ts, out) ==
    IF out.parses THEN Append(ts, out.value) ELSE <<>>

\* try { topics.push(JSON.parse(jsonString)) } catch { log }
ParseAndCollect(ts, out) ==
    IF out.parses THEN Append(ts, out.value) ELSE ts

\* After the chunk loop: mergeTopics(topics), then in the handler
\* topics.content = summary, hierarchyToMindMap(topics), res.json(mindMap)
Respond(ts, sum) ==
    /\ responses' = Append(responses,
           Ok(hierarchyToMindMap([mergeTopics(ts) EXCEPT !.content = sum])))
    /\ pc' = "done"

\* An external call throws e: the error reaches the handler's catch
Throw(e) ==
    /\ failure' = e
    /\ responses' = Append(responses, ServerError(e))
    /\ pc' = "done"
    /\ UNCHANGED <<req, keySet, summary, nChunks, idx, outputs, topics,
                   extCalls, llmCalls>>
    /\ UNCHANGED <<chunkVars, mergeVars>>

\* The handler up to its first await
Receive ==
    /\ pc = "start"
    /\ LET v == Validate(req, keySet) IN
       IF v = "bad request"
       THEN /\ responses' = Append(responses, BadRequest)
            /\ pc' = "done"
            /\ UNCHANGED <<extCalls, llmCalls>>
       ELSE IF v = "config error"
       THEN /\ responses' = Append(responses, ConfigError)
            /\ pc' = "done"
            /\ UNCHANGED <<extCalls, llmCalls>>
       ELSE IF req.type = "url"
       THEN /\ extCalls' = extCalls + 1
            /\ pc' = "extracting"
            /\ UNCHANGED <<responses, llmCalls>>
       ELSE /\ llmCalls' = llmCalls + 1
            /\ pc' = "summary"
            /\ UNCHANGED <<responses, extCalls>>
    /\ UNCHANGED <<req, keySet, summary, nChunks, idx, outputs, topics, failure>>
    /\ UNCHANGED <<chunkVars, mergeVars>>

\* extractContentFromURL returns: generateSummary sends its request
ExtractionSucceeds ==
    /\ pc = "extracting"
    /\ llmCalls' = llmCalls + 1
    /\ pc' = "summary"
    /\ UNCHANGED <<req, keySet, summary, nChunks, idx, outputs, topics,
                   responses, extCalls, failure>>
    /\ UNCHANGED <<chunkVars, mergeVars>>

ExtractionFails ==
    /\ pc = "extracting"
    /\ \E e \in Errors : Throw(e)

\* generateSummary returns: extractTopics splits the text into n chunks and
\* sends the first chunk's prompt, or with no chunk merges nothing
SummarySucceeds ==
    /\ pc = "summary"
    /\ summary' = "the summary"
    /\ \E n \in 0..MaxChunks :
        /\ nChunks' = n
        /\ IF n = 0
           THEN /\ Respond(<<>>, summary')
                /\ UNCHANGED <<idx, llmCalls>>
           ELSE /\ idx' = 1
                /\ llmCalls' = llmCalls + 1
                /\ pc' = "chunk"
                /\ UNCHANGED responses
    /\ UNCHANGED <<req, keySet, outputs, topics, extCalls, failure>>
    /\ UNCHANGED <<chunkVars, mergeVars>>

SummaryFails ==
    /\ pc = "summary"
    /\ \E e \in Errors : Throw(e)

\* The LLM answers the pending chunk's prompt with out: parse it, then send
\* the next chunk's prompt or, after the last chunk, merge, lay out, respond
ChunkAnswered(out) ==
    /\ outputs' = Append(outputs, out)
    /\ topics' = ParseAndCollect(topics, out)
    /\ IF idx < nChunks
       THEN /\ idx' = idx + 1
            /\ llmCalls' = llmCalls + 1
            /\ UNCHANGED <<pc, responses>>
       ELSE /\ Respond(topics', summary)
            /\ UNCHANGED <<idx, llmCalls>>
    /\ UNCHANGED <<req, keySet, summary, nChunks, extCalls, failure>>
    /\ UNCHANGED <<chunkVars, mergeVars>>

ChunkSucceeds ==
    /\ pc = "chunk"
    /\ \E out \in LLMOutputs : ChunkAnswered(out)

\* Mutant of ChunkThrows: the error is logged and the chunk skipped
ChunkThrows_Swallowed(e) ==
    /\ failure' = e
    /\ IF idx < nChunks
       THEN /\ idx' = idx + 1
            /\ llmCalls' = llmCalls + 1
            /\ UNCHANGED <<pc, responses>>
       ELSE /\ Respond(topics, summary)
            /\ UNCHANGED <<idx, llmCalls>>
    /\ UNCHANGED <<req, keySet, summary, nChunks, outputs, topics, extCalls>>
    /\ UNCHANGED <<chunkVars, mergeVars>>

\* The pending chunk's call throws e: extractTopics rethrows it
ChunkThrows(e) == Throw(e)

ChunkFails ==
    /\ pc = "chunk"
    /\ \E e \in Errors : ChunkThrows(e)

RequestIdle ==
    /\ req = [content |-> Undefined, type |-> "text"]
    /\ keySet = FALSE
    /\ pc = "idle"
    /\ summary = ""
    /\ nChunks = 0
    /\ idx = 0
    /\ outputs = <<>>
    /\ topics = <<>>
    /\ responses = <<>>
    /\ extCalls = 0
    /\ llmCalls = 0
    /\ failure = NoError

----------------------------------------------------------------------------
(* The specifications *)

\* One request: any body, the key set or not
Init ==
    /\ req \in [content : Contents, type : {"url", "text"}]
    /\ keySet \in BOOLEAN
    /\ pc = "start"
    /\ summary = ""
    /\ nChunks = 0
    /\ idx = 0
    /\ outputs = <<>>
    /\ topics = <<>>
    /\ responses = <<>>
    /\ extCalls = 0
    /\ llmCalls = 0
    /\ failure = NoError
    /\ ChunkIdle
    /\ MergeIdle

Next ==
    \/ Receive
    \/ ExtractionSucceeds
    \/ ExtractionFails
    \/ SummarySucceeds
    \/ SummaryFails
    \/ ChunkSucceeds
    \/ ChunkFails

Spec == Init /\ [][Next]_vars

\* splitTextIntoChunks(text, chunkSize) for every text and size in bounds
InitChunk ==
    /\ text \in SeqUpTo(Chars, MaxLen)
    /\ chunkSize \in 1..MaxChunkSize
    /\ chunks = <<>>
    /\ cpc = "input"
    /\ MergeIdle
    /\ RequestIdle

NextChunk == Split

SpecChunk == InitChunk /\ [][NextChunk]_vars

\* mergeTopics(topics), then hierarchyToMindMap, for every array of trees
InitMerge ==
    /\ mtopics \in SeqUpTo(ParsedTrees, MaxTrees)
    /\ merged = NoTree
    /\ graph = NoGraph
    /\ mpc = "input"
    /\ ChunkIdle
    /\ RequestIdle

NextMerge == Merge \/ Layout

SpecMerge == InitMerge /\ [][NextMerge]_vars

----------------------------------------------------------------------------
(* Properties of splitTextIntoChunks, under SpecChunk *)

RECURSIVE Concat(_)
Concat(ss) == IF ss = <<>> THEN <<>> ELSE Head(ss) \o Concat(Tail(ss))

StripSpaces(s) == SelectSeq(s, LAMBDA c : ~IsSpace(c))

\* A text with something in it and no sentence terminator
NoBoundary(s) ==
    Trim(s) # <<>> /\ \A i \in 1..Len(s) : ~IsTerminator(s[i])

\* The sentence units of a text: its sentences, or the whole text when it
\* has no sentence boundary
SentenceUnits(s) ==
    IF NoBoundary(s) THEN <<s>> ELSE MatchSentences(s, 1)

\* C3: no chunk returned by splitTextIntoChunks is empty, also when the
\* first sentence alone is longer than the chunk size, and an empty text
\* gives no chunk.
C3_NoEmptyChunk ==
    cpc = "done" =>
        /\ \A i \in 1..Len(chunks) : chunks[i] # <<>>
        /\ text = <<>> => chunks = <<>>

\* C4: the chunks, concatenated in order and white space apart, are the
\* text's sentence units in order, none lost, duplicated or moved; a text
\* with no sentence boundary is one unit and comes back as one chunk.
C4_ChunksReproduceSentences ==
    cpc = "done" =>
        /\ StripSpaces(Concat(chunks)) = StripSpaces(Concat(SentenceUnits(text)))
        /\ NoBoundary(text) => Len(chunks) = 1

\* C10: a chunk built from two or more sentence units has at most chunkSize
\* characters; only a chunk of a single sentence may be longer.
C10_JoinedChunkWithinSize ==
    cpc = "done" =>
        \A i \in 1..Len(chunks) :
            Len(MatchSentences(chunks[i], 1)) >= 2 => Len(chunks[i]) <= chunkSize

----------------------------------------------------------------------------
(* Properties of mergeTopics and hierarchyToMindMap, under SpecMerge *)

\* Every input's direct children, in input order
RECURSIVE AllChildren(_)
AllChildren(ts) ==
    IF ts = <<>> THEN <<>> ELSE Head(ts).children \o AllChildren(Tail(ts))

SameTitle(c, d) == toLowerCase(c.title) = toLowerCase(d.title)

\* Those of cs[i..] that no earlier element of cs equals in title
RECURSIVE FirstOccurrences(_, _)
FirstOccurrences(cs, i) ==
    IF i > Len(cs) THEN <<>>
    ELSE (IF \E j \in 1..(i - 1) : SameTitle(cs[j], cs[i]) THEN <<>>
          ELSE <<cs[i]>>)
         \o FirstOccurrences(cs, i + 1)

\* C5: the merged root's children are the first occurrences, titles
\* compared without case, of the inputs' direct children in first-seen
\* order; no two have the same title up to case; the i-th has id topic-i
\* and level 1.
C5_MergedChildrenAreFirstOccurrences ==
    mpc \in {"merged", "laid"} =>
        LET first == FirstOccurrences(AllChildren(mtopics), 1)
            kids == merged.children
        IN  /\ Len(kids) = Len(first)
            /\ \A i \in 1..Len(kids) :
                /\ kids[i].id = "topic-" \o ToString(i)
                /\ kids[i].level = 1
                /\ kids[i].title = first[i].title
                /\ kids[i].content = first[i].content
                /\ kids[i].children = first[i].children
            /\ \A i, j \in 1..Len(kids) : SameTitle(kids[i], kids[j]) => i = j

\* Two inputs, the second repeating a title of the first in the other case
C5_Witness ==
    /\ mpc = "merged"
    /\ Len(mtopics) = 2
    /\ Len(merged.children) = 2
    /\ \E i \in 1..Len(mtopics[1].children), j \in 1..Len(mtopics[2].children) :
        /\ SameTitle(mtopics[1].children[i], mtopics[2].children[j])
        /\ mtopics[1].children[i].title # mtopics[2].children[j].title

\* C1: the graph has one edge per parent-child relationship of the merged
\* tree: as many edges as nodes, less one.
C1_EdgesAreNodesMinusOne ==
    mpc = "laid" => Len(graph.edges) = Len(graph.nodes) - 1

\* Each node's distance from the root, in the order hierarchyToMindMap
\* emits the nodes (a node, then its children's subtrees in order)
RECURSIVE Depths(_, _)
RECURSIVE DepthsBelow(_, _, _)
Depths(node, d) == <<d>> \o DepthsBelow(node, 1, d + 1)

DepthsBelow(node, i, d) ==
    IF i > Len(node.children) THEN <<>>
    ELSE Depths(node.children[i], d) \o DepthsBelow(node, i + 1, d)

\* C9: every emitted node's level is its distance from the root.
C9_LevelIsDistanceFromRoot ==
    mpc = "laid" =>
        LET depth == Depths(merged, 0) IN
        /\ Len(graph.nodes) = Len(depth)
        /\ \A i \in 1..Len(depth) : graph.nodes[i].data.level = depth[i]

----------------------------------------------------------------------------
(* Properties of POST /api/process, under Spec *)

\* C2: in a 200 response no two nodes of the graph have the same id.
C2_NodeIdsUnique ==
    \A r \in 1..Len(responses) :
        responses[r].status = 200 =>
            \A i, j \in 1..Len(responses[r].body.nodes) :
                responses[r].body.nodes[i].id = responses[r].body.nodes[j].id
                    => i = j

\* The trees of the answers that parse, in chunk order
ParsedInOrder(outs) ==
    LET kept == SelectSeq(outs, LAMBDA o : o.parses)
    IN  [i \in 1..Len(kept) |-> kept[i].value]

\* The request passed validation, every external call returned, and the
\* handler has finished
AllCallsSucceeded ==
    pc = "done" /\ failure = NoError /\ Validate(req, keySet) = "ok"

C7_FailureEndsIn500 ==
    /\ [](failure # NoError =>
            /\ pc = "done"
            /\ responses = <<ServerError(failure)>>)
    /\ [][failure # NoError =>
            /\ llmCalls' = llmCalls
            /\ extCalls' = extCalls
            /\ responses' = responses]_vars

\* The second chunk's call fails after the first chunk's tree was parsed
C7_Witness ==
    /\ failure # NoError
    /\ pc = "done"
    /\ idx = 2
    /\ Len(topics) = 1
    /\ Len(topics[1].children) > 0
    /\ llmCalls = 3

\* C8: with the content missing or empty the response is the 400, with
\* content and no API key it is a 500, and in both cases no page extraction
\* and no LLM call is ever started.
C8_RejectedBeforeAnyExternalCall ==
    /\ (Falsy(req.content) \/ ~keySet) => extCalls = 0 /\ llmCalls = 0
    /\ (pc = "done" /\ Falsy(req.content)) => responses = <<BadRequest>>
    /\ (pc = "done" /\ ~Falsy(req.content) /\ ~keySet) =>
            Len(responses) = 1 /\ responses[1].status = 500

\* A URL request answered while the key is not set
C8_Witness ==
    /\ pc = "done"
    /\ ~Falsy(req.content)
    /\ req.type = "url"
    /\ ~keySet
    /\ Len(responses) = 1
    /\ responses[1].status = 500

====
